---- MODULE Spec2Model ----
(***************************************************************************)
(* file_encrypt (src/main.cpp): password-based AES-256-CBC encryption and  *)
(* decryption of one file.  The model follows main() statement by          *)
(* statement; the OpenSSL calls are modelled by what they do to their      *)
(* arguments (byte counts, padding, return value), with a small keyed      *)
(* block permutation standing for the AES block function.  The tool may be *)
(* invoked several times in a row on the same file system.                 *)
(***************************************************************************)
EXTENDS Integers, Sequences, FiniteSets, TLC

VARIABLES
    fs,           \* the file system: file name -> [exists, data]
    run,          \* number of the current invocation of the tool
    prev,         \* record of the previous invocation (history)
    pc,           \* position of main()
    opt,          \* main: int opt (last value returned by getopt)
    encrypt,      \* main: bool encrypt
    decrypt,      \* main: bool decrypt
    password,     \* main: std::string password
    input_file,   \* main: std::string input_file
    output_file,  \* main: std::string output_file
    file_data,    \* main: std::vector<unsigned char> file_data
    key,          \* main: unsigned char key[32] (<<>> while indeterminate)
    ctx,          \* main: EVP_CIPHER_CTX* ctx and the object it points to
    output_data,  \* main: std::vector<unsigned char> output_data
    output_len,   \* main: int output_len
    final_len,    \* main: int final_len
    rets,         \* values returned by the OpenSSL calls (-1: not called)
    ofs,          \* main: std::ofstream ofs: "none", "open", "failed", "closed"
    faults,       \* the library and system calls that failed for external reasons
    exit          \* how the process ended: "running", "EXIT_SUCCESS", ...

vars == <<fs, run, prev, pc, opt, encrypt, decrypt, password, input_file,
          output_file, file_data, key, ctx, output_data, output_len, final_len,
          rets, ofs, faults, exit>>

(***************************************************************************)
(* Bounds of the model.                                                    *)
(***************************************************************************)
\* longest initial input file, in bytes
MaxLen == 17
\* most invocations of the tool in one behaviour
MaxRuns == 2

(***************************************************************************)
(* Program constants.                                                      *)
(***************************************************************************)
\* EVP_CIPHER_block_size(EVP_aes_256_cbc())
BlockSize == 16
\* unsigned char key[32]
KeyLen == 32
\* unsigned char
ByteMod == 256

Byte == 0 .. (ByteMod - 1)

Zeros(n) == [i \in 1 .. n |-> 0]

\* bitwise exclusive or of two bytes
RECURSIVE Xor(_, _)
Xor(a, b) ==
    IF a = 0 THEN b
    ELSE IF b = 0 THEN a
    ELSE ((a + b) % 2) + 2 * Xor(a \div 2, b \div 2)

XorBlock(x, y) == [i \in 1 .. BlockSize |-> Xor(x[i], y[i])]

RECURSIVE SumSeq(_)
SumSeq(s) == IF s = <<>> THEN 0 ELSE Head(s) + SumSeq(Tail(s))

(***************************************************************************)
(* OpenSSL primitives, as pure functions of their arguments.               *)
(***************************************************************************)
\* PKCS5_PBKDF2_HMAC(password, salt = none, 10000, SHA-256, 32): a
\* deterministic 32-byte function of the password
PBKDF2(pw) ==
    [i \in 1 .. KeyLen |-> (31 * SumSeq(pw) + 13 * Len(pw) + 7 * i) % ByteMod]

\* the block function of the cipher: a permutation of the 16-byte blocks
\* selected by the key (a byte rotation followed by a keyed byte shift)
BlockEnc(k, x) ==
    [i \in 1 .. BlockSize |->
        (x[(i % BlockSize) + 1] + k[i] + k[i + BlockSize]) % ByteMod]

\* the inverse permutation
BlockDec(k, y) ==
    [j \in 1 .. BlockSize |->
        LET i == ((j + BlockSize - 2) % BlockSize) + 1
        IN  (y[i] - k[i] - k[i + BlockSize]) % ByteMod]

\* CBC encryption of whole blocks, chaining from iv
RECURSIVE CbcEnc(_, _, _)
CbcEnc(k, iv, data) ==
    IF Len(data) < BlockSize THEN <<>>
    ELSE LET c == BlockEnc(k, XorBlock(SubSeq(data, 1, BlockSize), iv))
         IN  c \o CbcEnc(k, c, SubSeq(data, BlockSize + 1, Len(data)))

\* CBC decryption of whole blocks, chaining from iv
RECURSIVE CbcDec(_, _, _)
CbcDec(k, iv, data) ==
    IF Len(data) < BlockSize THEN <<>>
    ELSE LET c == SubSeq(data, 1, BlockSize)
         IN  XorBlock(BlockDec(k, c), iv)
                 \o CbcDec(k, c, SubSeq(data, BlockSize + 1, Len(data)))

\* the chaining value after processing whole blocks of cipher text ct
NextIv(iv, ct) ==
    IF Len(ct) < BlockSize THEN iv
    ELSE SubSeq(ct, Len(ct) - BlockSize + 1, Len(ct))

\* the cipher context object: none (before EVP_CIPHER_CTX_new), null (the
\* allocation failed), new, ready (Init succeeded), freed
NoCtx ==
    [st |-> "none", enc |-> FALSE, key |-> <<>>, iv |-> <<>>, buf |-> <<>>,
     held |-> <<>>, final_used |-> FALSE]

\* EVP_EncryptInit_ex / EVP_DecryptInit_ex on a context that exists
CipherInit(c, enc, k, iv) ==
    [c EXCEPT !.st = "ready", !.enc = enc, !.key = k, !.iv = iv, !.buf = <<>>,
              !.held = <<>>, !.final_used = FALSE]

\* EVP_EncryptUpdate: whole blocks are encrypted, the rest is buffered
EncryptUpdate(c, in) ==
    LET total == c.buf \o in
        nfull == Len(total) \div BlockSize
        whole == SubSeq(total, 1, nfull * BlockSize)
        out   == CbcEnc(c.key, c.iv, whole)
    IN  [ok  |-> TRUE,
         out |-> out,
         ctx |-> [c EXCEPT !.iv = NextIv(c.iv, out),
                           !.buf = SubSeq(total, nfull * BlockSize + 1, Len(total))]]

\* EVP_EncryptFinal_ex: the buffered bytes are padded (PKCS#7) to one block
EncryptFinal(c) ==
    LET pad   == BlockSize - Len(c.buf)
        block == c.buf \o [i \in 1 .. pad |-> pad]
        out   == CbcEnc(c.key, c.iv, block)
    IN  [ok |-> TRUE, out |-> out, ctx |-> [c EXCEPT !.iv = NextIv(c.iv, out), !.buf = <<>>]]

\* EVP_DecryptUpdate: whole blocks are decrypted; when the data ends on a
\* block boundary the last decrypted block is held back for Final
DecryptUpdate(c, in) ==
    LET total == c.buf \o in
        nfull == Len(total) \div BlockSize
        whole == SubSeq(total, 1, nfull * BlockSize)
        plain == CbcDec(c.key, c.iv, whole)
        rest  == SubSeq(total, nfull * BlockSize + 1, Len(total))
        hold  == nfull > 0 /\ rest = <<>>
    IN  [ok  |-> TRUE,
         out |-> IF hold THEN SubSeq(plain, 1, Len(plain) - BlockSize) ELSE plain,
         ctx |-> [c EXCEPT !.iv = NextIv(c.iv, whole),
                           !.buf = rest,
                           !.held = IF hold
                                    THEN SubSeq(plain, Len(plain) - BlockSize + 1, Len(plain))
                                    ELSE <<>>,
                           !.final_used = hold]]

\* the held block ends in a valid PKCS#7 padding
ValidPadding(b) ==
    LET n == b[BlockSize]
    IN  /\ n >= 1
        /\ n <= BlockSize
        /\ \A i \in (BlockSize - n + 1) .. BlockSize : b[i] = n

\* EVP_DecryptFinal_ex: fails on a partial block, on no block at all and on
\* an invalid padding; otherwise the held block without its padding
DecryptFinal(c) ==
    IF c.buf # <<>> \/ ~c.final_used \/ ~ValidPadding(c.held)
    THEN [ok |-> FALSE, out |-> <<>>, ctx |-> c]
    ELSE [ok  |-> TRUE,
          out |-> SubSeq(c.held, 1, BlockSize - c.held[BlockSize]),
          ctx |-> [c EXCEPT !.held = <<>>, !.final_used = FALSE]]

\* bytes written into buffer buf at offset off (bytes past the end are lost)
Overlay(buf, off, bytes) ==
    [i \in 1 .. Len(buf) |->
        IF i > off /\ i <= off + Len(bytes) THEN bytes[i - off] ELSE buf[i]]

(***************************************************************************)
(* The inputs of the model.                                                *)
(***************************************************************************)
FileNames == {"a", "b"}

\* -p arguments: the empty password and two passwords
Passwords == {<<>>, <<112>>, <<113, 114>>}

\* -i / -o arguments
PathArgs == FileNames \cup {""}

\* the input file of length n
Pattern(n) == [i \in 1 .. n |-> (37 * i + n) % ByteMod]

Absent == [exists |-> FALSE, data |-> <<>>]
File(d) == [exists |-> TRUE, data |-> d]

NoPrev == [ok |-> FALSE, password |-> <<>>, input |-> <<>>, outfile |-> ""]
NoRets == [kdf |-> -1, init |-> -1, update |-> -1, final |-> -1]

(***************************************************************************)
(* main(): the values of the locals at entry.                              *)
(***************************************************************************)
Entry ==
    /\ pc = "getopt"
    /\ opt = "none"
    /\ encrypt = FALSE
    /\ decrypt = FALSE
    /\ password = <<>>
    /\ input_file = ""
    /\ output_file = ""
    /\ file_data = <<>>
    /\ key = <<>>
    /\ ctx = NoCtx
    /\ output_data = <<>>
    /\ output_len = 0
    /\ final_len = 0
    /\ rets = NoRets
    /\ ofs = "none"
    /\ faults = {}
    /\ exit = "running"

Init ==
    /\ \E n \in 0 .. MaxLen :
          fs = [f \in FileNames |-> IF f = "a" THEN File(Pattern(n)) ELSE Absent]
    /\ run = 1
    /\ prev = NoPrev
    /\ Entry

\* return <status> from main, or the death of the process
Return(status) ==
    /\ pc' = "done"
    /\ exit' = status

LocalsUnchanged ==
    UNCHANGED <<encrypt, decrypt, password, input_file, output_file>>

(***************************************************************************)
(* Command line: while ((opt = getopt(...)) != -1) switch (opt).  The      *)
(* command line is of any length: each call of getopt yields any option.   *)
(***************************************************************************)
ParseOption ==
    /\ pc = "getopt"
    /\ \/ /\ opt' = "e"
          /\ encrypt' = TRUE
          /\ UNCHANGED <<decrypt, password, input_file, output_file, pc, exit>>
       \/ /\ opt' = "d"
          /\ decrypt' = TRUE
          /\ UNCHANGED <<encrypt, password, input_file, output_file, pc, exit>>
       \/ \E optarg \in Passwords :
          /\ opt' = "p"
          /\ password' = optarg
          /\ UNCHANGED <<encrypt, decrypt, input_file, output_file, pc, exit>>
       \/ \E optarg \in PathArgs :
          /\ opt' = "i"
          /\ input_file' = optarg
          /\ UNCHANGED <<encrypt, decrypt, password, output_file, pc, exit>>
       \/ \E optarg \in PathArgs :
          /\ opt' = "o"
          /\ output_file' = optarg
          /\ UNCHANGED <<encrypt, decrypt, password, input_file, pc, exit>>
       \/ /\ opt' = "?"           \* unknown option or missing argument
          /\ Return("EXIT_FAILURE")
          /\ LocalsUnchanged
    /\ UNCHANGED <<fs, run, prev, file_data, key, ctx, output_data, output_len,
                   final_len, rets, ofs, faults>>

\* getopt returns -1: the loop ends
ParseDone ==
    /\ pc = "getopt"
    /\ opt' = "-1"
    /\ pc' = "validate"
    /\ LocalsUnchanged
    /\ UNCHANGED <<fs, run, prev, file_data, key, ctx, output_data,
                   output_len, final_len, rets, ofs, faults, exit>>

\* the condition of the usage error
UsageMut(e, d, p, i, o) ==
    (e /\ d) \/ (~e /\ ~d) \/ i = "" \/ o = ""
UsageError(e, d, p, i, o) ==
    (e /\ d) \/ (~e /\ ~d) \/ p = <<>> \/ i = "" \/ o = ""

Validate ==
    /\ pc = "validate"
    /\ IF UsageError(encrypt, decrypt, password, input_file, output_file)
       THEN Return("EXIT_FAILURE")
       ELSE pc' = "load" /\ exit' = exit
    /\ LocalsUnchanged
    /\ UNCHANGED <<fs, run, prev, opt, file_data, key, ctx, output_data,
                   output_len, final_len, rets, ofs, faults>>

\* std::ifstream ifs(input_file); read it whole
LoadInput ==
    /\ pc = "load"
    /\ IF ~fs[input_file].exists
       THEN /\ Return("EXIT_FAILURE")
            /\ file_data' = file_data
       ELSE /\ file_data' = fs[input_file].data
            /\ pc' = "kdf"
            /\ exit' = exit
    /\ LocalsUnchanged
    /\ UNCHANGED <<fs, run, prev, opt, key, ctx, output_data,
                   output_len, final_len, rets, ofs, faults>>

(***************************************************************************)
(* Key derivation and the cipher.                                          *)
(***************************************************************************)
\* if (!PKCS5_PBKDF2_HMAC(...)) { ...; return EXIT_FAILURE; }
DeriveKeyMut ==
    /\ pc = "kdf"
    /\ \E ok \in BOOLEAN :
          /\ rets' = [rets EXCEPT !.kdf = IF ok THEN 1 ELSE 0]
          /\ faults' = IF ok THEN faults ELSE faults \cup {"kdf"}
          /\ key' = IF ok THEN PBKDF2(password) ELSE key
          /\ pc' = "ctx_new"
          /\ exit' = exit
    /\ LocalsUnchanged
    /\ UNCHANGED <<fs, run, prev, opt, file_data, ctx, output_data,
                   output_len, final_len, ofs>>
DeriveKey ==
    /\ pc = "kdf"
    /\ \E ok \in BOOLEAN :
          /\ rets' = [rets EXCEPT !.kdf = IF ok THEN 1 ELSE 0]
          /\ faults' = IF ok THEN faults ELSE faults \cup {"kdf"}
          /\ IF ok
             THEN /\ key' = PBKDF2(password)
                  /\ pc' = "ctx_new"
                  /\ exit' = exit
             ELSE /\ key' = key
                  /\ Return("EXIT_FAILURE")
    /\ LocalsUnchanged
    /\ UNCHANGED <<fs, run, prev, opt, file_data, ctx, output_data,
                   output_len, final_len, ofs>>

\* std::vector<unsigned char> output_data(file_data.size() + block size)
OutputCapacityMut(n) == n
OutputCapacity(n) == n + BlockSize

\* EVP_CIPHER_CTX_new(); the output buffer; output_len = 0, final_len = 0
NewCtx ==
    /\ pc = "ctx_new"
    /\ \E ok \in BOOLEAN :
          /\ ctx' = [NoCtx EXCEPT !.st = IF ok THEN "new" ELSE "null"]
          /\ faults' = IF ok THEN faults ELSE faults \cup {"ctx"}
    /\ output_data' = Zeros(OutputCapacity(Len(file_data)))
    /\ output_len' = 0
    /\ final_len' = 0
    /\ pc' = "init"
    /\ LocalsUnchanged
    /\ UNCHANGED <<fs, run, prev, opt, file_data, key, rets, ofs, exit>>

\* EVP_EncryptInit_ex / EVP_DecryptInit_ex (ctx, cipher, nullptr, key, iv);
\* the value returned is not looked at.  On a null context the library
\* dereferences it and the process dies
InitStep ==
    /\ pc = "init"
    /\ \/ /\ ctx.st = "null"
          /\ Return("SIGSEGV")
          /\ UNCHANGED <<ctx, output_data, output_len, final_len, rets, faults>>
       \/ /\ ctx.st # "null"
          /\ \E ok \in BOOLEAN :
                /\ rets' = [rets EXCEPT !.init = IF ok THEN 1 ELSE 0]
                /\ faults' = IF ok THEN faults ELSE faults \cup {"init"}
                /\ ctx' = IF ok THEN CipherInit(ctx, encrypt, key, Zeros(BlockSize))
                          ELSE ctx
          /\ pc' = "update"
          /\ UNCHANGED <<output_data, output_len, final_len, exit>>
    /\ LocalsUnchanged
    /\ UNCHANGED <<fs, run, prev, opt, file_data, key, ofs>>

\* the external outcomes of a call of Update or Final: on a context Init
\* did not set up the call fails whatever else happens
CallOutcomes == IF ctx.st = "ready" THEN BOOLEAN ELSE {TRUE}

\* what Update and Final do: they report failure and write nothing unless
\* Init succeeded on the context and nothing external fails
CipherCall(ok, r) ==
    IF ctx.st = "ready" /\ ok THEN r ELSE [ok |-> FALSE, out |-> <<>>, ctx |-> ctx]

\* EVP_EncryptUpdate / EVP_DecryptUpdate (ctx, output_data.data(),
\* &output_len, file_data.data(), file_data.size()); the validation leaves
\* exactly one of encrypt and decrypt set; the value returned is not
\* looked at
UpdateStep ==
    /\ pc = "update"
    /\ \E ok \in CallOutcomes :
          LET r == CipherCall(ok, IF encrypt THEN EncryptUpdate(ctx, file_data)
                                  ELSE DecryptUpdate(ctx, file_data))
          IN  /\ rets' = [rets EXCEPT !.update = IF r.ok THEN 1 ELSE 0]
              /\ faults' = IF ok THEN faults ELSE faults \cup {"update"}
              /\ ctx' = r.ctx
              /\ output_data' = Overlay(output_data, 0, r.out)
              /\ output_len' = IF r.ok THEN Len(r.out) ELSE 0
    /\ pc' = "final"
    /\ UNCHANGED <<final_len, exit>>
    /\ LocalsUnchanged
    /\ UNCHANGED <<fs, run, prev, opt, file_data, key, ofs>>

\* EVP_EncryptFinal_ex / EVP_DecryptFinal_ex (ctx, output_data.data() +
\* output_len, &final_len)
FinalStep ==
    /\ pc = "final"
    /\ \E ok \in CallOutcomes :
          LET r == CipherCall(ok, IF encrypt THEN EncryptFinal(ctx)
                                  ELSE DecryptFinal(ctx))
          IN  /\ rets' = [rets EXCEPT !.final = IF r.ok THEN 1 ELSE 0]
              /\ faults' = IF ok THEN faults ELSE faults \cup {"final"}
              /\ ctx' = r.ctx
              /\ output_data' = Overlay(output_data, output_len, r.out)
              /\ final_len' = IF r.ok THEN Len(r.out) ELSE final_len
    /\ pc' = "resize"
    /\ UNCHANGED <<output_len, exit>>
    /\ LocalsUnchanged
    /\ UNCHANGED <<fs, run, prev, opt, file_data, key, ofs>>

\* the size given to output_data.resize
ResizeLenMut(ol, fl) == ol
ResizeLen(ol, fl) == ol + fl

\* std::vector::resize: cut, or grow with zero bytes
Resize(v, n) == [i \in 1 .. n |-> IF i <= Len(v) THEN v[i] ELSE 0]

\* EVP_CIPHER_CTX_free: clears and frees the object; free(NULL) does nothing
CtxFreeMut(c) == c
CtxFree(c) == IF c.st = "null" THEN c ELSE [NoCtx EXCEPT !.st = "freed"]

\* output_data.resize(output_len + final_len); EVP_CIPHER_CTX_free(ctx);
ResizeFree ==
    /\ pc = "resize"
    /\ output_data' = Resize(output_data, ResizeLen(output_len, final_len))
    /\ ctx' = CtxFree(ctx)
    /\ pc' = "open_out"
    /\ LocalsUnchanged
    /\ UNCHANGED <<fs, run, prev, opt, file_data, key, output_len,
                   final_len, rets, ofs, faults, exit>>

(***************************************************************************)
(* Output.                                                                 *)
(***************************************************************************)
\* std::ofstream ofs(output_file): creates or truncates the file
OpenOutput ==
    /\ pc = "open_out"
    /\ \E ok \in BOOLEAN :
          IF ok
          THEN /\ fs' = [fs EXCEPT ![output_file] = File(<<>>)]
               /\ ofs' = "open"
               /\ pc' = "write"
               /\ UNCHANGED <<faults, exit>>
          ELSE /\ ofs' = "failed"
               /\ faults' = faults \cup {"ofs"}
               /\ Return("EXIT_FAILURE")
               /\ fs' = fs
    /\ LocalsUnchanged
    /\ UNCHANGED <<run, prev, opt, file_data, key, ctx, output_data,
                   output_len, final_len, rets>>

\* ofs.write(&output_data[0], output_data.size()); ofs.close(); return
\* EXIT_SUCCESS.  output_data[0] of an empty vector is undefined: the
\* library's checked operator[] aborts the process, the unchecked one
\* yields the buffer's address and nothing is written
WriteOutput ==
    /\ pc = "write"
    /\ \/ /\ output_data = <<>>
          /\ Return("SIGABRT")
          /\ UNCHANGED <<fs, ofs>>
       \/ /\ fs' = [fs EXCEPT ![output_file] = File(output_data)]
          /\ ofs' = "closed"
          /\ Return("EXIT_SUCCESS")
    /\ LocalsUnchanged
    /\ UNCHANGED <<run, prev, opt, file_data, key, ctx, output_data,
                   output_len, final_len, rets, faults>>

(***************************************************************************)
(* The tool is run again.                                                  *)
(***************************************************************************)
\* the run that ended was an encryption in which every step succeeded
EncryptedOk ==
    /\ exit = "EXIT_SUCCESS"
    /\ encrypt
    /\ rets = [kdf |-> 1, init |-> 1, update |-> 1, final |-> 1]

NextRun ==
    /\ pc = "done"
    /\ run < MaxRuns
    /\ run' = run + 1
    /\ prev' = IF EncryptedOk
               THEN [ok |-> TRUE, password |-> password, input |-> file_data,
                     outfile |-> output_file]
               ELSE NoPrev
    /\ pc' = "getopt"
    /\ opt' = "none"
    /\ encrypt' = FALSE
    /\ decrypt' = FALSE
    /\ password' = <<>>
    /\ input_file' = ""
    /\ output_file' = ""
    /\ file_data' = <<>>
    /\ key' = <<>>
    /\ ctx' = NoCtx
    /\ output_data' = <<>>
    /\ output_len' = 0
    /\ final_len' = 0
    /\ rets' = NoRets
    /\ ofs' = "none"
    /\ faults' = {}
    /\ exit' = "running"
    /\ fs' = fs

Next ==
    \/ ParseOption
    \/ ParseDone
    \/ Validate
    \/ LoadInput
    \/ DeriveKey
    \/ NewCtx
    \/ InitStep
    \/ UpdateStep
    \/ FinalStep
    \/ ResizeFree
    \/ OpenOutput
    \/ WriteOutput
    \/ NextRun

Spec == Init /\ [][Next]_vars

(***************************************************************************)
(* Properties.                                                             *)
(***************************************************************************)
Terminal == pc = "done"

\* a step of the transform has reported failure
StepFailed ==
    rets.kdf = 0 \/ rets.init = 0 \/ rets.update = 0 \/ rets.final = 0

\* every step of the transform was called and succeeded
AllStepsOk == rets = [kdf |-> 1, init |-> 1, update |-> 1, final |-> 1]

\* the output file has been opened (created or truncated) by this run
OutputOpened == ofs \in {"open", "closed"}

\* the command line was read to its end and is a well-formed request
WellFormed ==
    /\ opt = "-1"
    /\ encrypt # decrypt
    /\ password # <<>>
    /\ input_file # ""
    /\ output_file # ""

\* the bytes a successful encryption of n bytes writes
PaddedLen(n) == BlockSize * ((n \div BlockSize) + 1)

\* C1: when any step of the transform (key derivation, Init, Update,
\* Finalize) reports failure, the output file is never opened or written.
NoOutputOnFailure == StepFailed => ~OutputOpened

\* C2: in decrypt mode, when Finalize reports failure because of the data
\* (an invalid padding, or a length that is no positive multiple of 16) the
\* run ends with a non-zero status, never with EXIT_SUCCESS.
DecryptFinalFailureFails ==
    (Terminal /\ decrypt /\ ~encrypt /\ rets.final = 0 /\ faults = {})
        => exit # "EXIT_SUCCESS"

\* C3: round trip: an encryption of D under a non-empty password P followed
\* by a decryption under P of the bytes written yields exactly D, and both
\* runs succeed (nothing external failing).
RoundTrip ==
    /\ (Terminal /\ WellFormed /\ encrypt /\ rets.kdf # -1 /\ faults = {})
          => (exit = "EXIT_SUCCESS" /\ AllStepsOk)
    /\ (Terminal /\ WellFormed /\ decrypt /\ prev.ok
          /\ password = prev.password /\ input_file = prev.outfile /\ faults = {})
          => (/\ exit = "EXIT_SUCCESS"
              /\ AllStepsOk
              /\ fs[output_file] = File(prev.input))

\* the round trip of a buffer that is not empty (C3 without the empty buffer)
RoundTripNonEmpty ==
    (Terminal /\ WellFormed /\ decrypt /\ prev.ok /\ prev.input # <<>>
        /\ password = prev.password /\ input_file = prev.outfile /\ faults = {})
        => (/\ exit = "EXIT_SUCCESS"
            /\ AllStepsOk
            /\ fs[output_file] = File(prev.input))

\* C4: size law: a successful encryption of n bytes writes exactly
\* 16 * (n div 16 + 1) bytes: output_len + final_len is that number, which
\* is more than n and at most n + 16.
SizeLaw ==
    (Terminal /\ EncryptedOk) =>
        LET n == Len(file_data)
        IN  /\ output_len + final_len = PaddedLen(n)
            /\ Len(fs[output_file].data) = PaddedLen(n)
            /\ (output_len + final_len) % BlockSize = 0
            /\ output_len + final_len > n
            /\ output_len + final_len <= n + BlockSize

\* an aligned input was encrypted and a whole block of padding was added
SizeLawWitness ==
    /\ Terminal
    /\ EncryptedOk
    /\ Len(file_data) = BlockSize
    /\ Len(fs[output_file].data) = 2 * BlockSize

\* C5: the cipher context is acquired before Init, is released in every
\* terminal state reached after it was acquired, and no cipher step uses it
\* after its release.
CtxLifetime ==
    /\ rets.init # -1 => ctx.st # "none"
    /\ Terminal => ctx.st \in {"none", "null", "freed"}
    /\ ctx.st = "freed" => pc \in {"open_out", "write", "done"}
    /\ pc = "init" => ctx.st \in {"null", "new"}
    /\ pc \in {"update", "final"} => ctx.st \in {"new", "ready"}

\* a failure path after the acquisition: the output file cannot be opened
CtxLifetimeWitness ==
    /\ Terminal
    /\ ofs = "failed"
    /\ faults = {"ofs"}
    /\ exit = "EXIT_FAILURE"
    /\ ctx.st = "freed"

\* C6: Init, Update and Finalize run in this order, and a failure is fatal
\* for the steps after it: Update is executed only after Init succeeded and
\* Finalize only after Update succeeded.
FailureIsFatal ==
    /\ rets.update # -1 => rets.init = 1
    /\ rets.final # -1 => rets.update = 1

\* C7: when key derivation reports failure, main returns a non-zero status,
\* no cipher context is created, no cipher step is executed and the output
\* file is not written.
KdfFailureStops ==
    rets.kdf = 0 =>
        /\ Terminal
        /\ exit = "EXIT_FAILURE"
        /\ ctx.st = "none"
        /\ rets.init = -1 /\ rets.update = -1 /\ rets.final = -1
        /\ ofs = "none"
        /\ output_data = <<>>

KdfFailureWitness ==
    /\ Terminal
    /\ rets.kdf = 0
    /\ faults = {"kdf"}
    /\ WellFormed

\* C8: in every terminal state of a run that reached key derivation and in
\* which main returned (successful exit, key-derivation failure, output
\* file not opened), the key buffer holds no key material.
KeyZeroed ==
    (Terminal /\ rets.kdf # -1 /\ exit \in {"EXIT_SUCCESS", "EXIT_FAILURE"})
        => key # PBKDF2(password)

\* C9: a command line with both or neither of encrypt and decrypt, or with
\* an empty password, is rejected with a non-zero status before the input
\* file is read, before key derivation and before any output; key
\* derivation and the cipher are reached only with encrypt XOR decrypt and
\* a non-empty password.
UsageRejected ==
    /\ (encrypt = decrypt \/ password = <<>>) =>
          /\ pc \in {"getopt", "validate", "done"}
          /\ file_data = <<>>
          /\ rets = NoRets
          /\ ctx.st = "none"
          /\ ofs = "none"
          /\ Terminal => exit = "EXIT_FAILURE"
    /\ (rets.kdf # -1 \/ rets.init # -1 \/ rets.update # -1 \/ rets.final # -1)
          => (encrypt # decrypt /\ password # <<>>)

\* both modes given, everything else in order: rejected by the validation
UsageRejectedWitness ==
    /\ Terminal
    /\ opt = "-1"
    /\ encrypt /\ decrypt
    /\ password # <<>> /\ input_file # "" /\ output_file # ""
    /\ exit = "EXIT_FAILURE"

\* C10: the output buffer has capacity n + 16 before Init; the lengths the
\* cipher reports are not negative and add up to at most n + 16 (at most n
\* on decrypt), so nothing is written past the buffer and the final resize
\* does not grow it, also when a step fails.
BufferBound ==
    LET n == Len(file_data)
    IN  /\ pc \in {"init", "update", "final", "resize"} =>
              /\ Len(output_data) = n + BlockSize
              /\ output_len + final_len <= Len(output_data)
        /\ pc \in {"open_out", "write"} => Len(output_data) = output_len + final_len
        /\ output_len >= 0
        /\ final_len >= 0
        /\ output_len + final_len <= n + BlockSize
        /\ decrypt => output_len + final_len <= n
        /\ StepFailed /\ rets.update # 1 => output_len = 0
        /\ rets.final # 1 => final_len = 0

\* an aligned input encrypted: the buffer is filled to its last byte
BufferBoundWitness ==
    /\ pc = "resize"
    /\ encrypt
    /\ rets.final = 1
    /\ Len(file_data) = BlockSize
    /\ output_len + final_len = Len(output_data)

====
